---------------------------- MODULE Spec2Model ----------------------------
(* A model of the step-debugger engine of python-t3: Tracer.run (the engine  *)
(* entry), FrameProcessor.trace (the trace hook and its action loop) and     *)
(* FrameProcessor.evaluate_expression, driven by a controller that sends     *)
(* actions through the action queue, executing a user program that is seen   *)
(* through the events the interpreter delivers to the trace hook.           *)
EXTENDS Integers, Sequences, FiniteSets, TLC

VARIABLES
    action_queue,           \* Tracer._action_queue: actions sent and not yet received
    closed,                 \* the controller closed the action queue
    sent,                   \* how many actions the controller has sent
    result_queue,           \* Tracer._result_queue: every result put, in order
    log,                    \* history: every get / put of the engine, in order
    pc,                     \* position of the engine
    trace_fn,               \* the hook installed with sys.settrace
    program,                \* the user program given to the Tracer
    ip,                     \* index of the next interpreter event of the program
    exec_call_frame,        \* FrameProcessor.exec_call_frame
    inspected_frame_count   \* FrameProcessor.inspected_frame_count

engineVars == <<action_queue, closed, sent, result_queue, log, pc, trace_fn, program,
                ip, exec_call_frame, inspected_frame_count>>

(* The scope builder (scope.py), run in the same process.                    *)
VARIABLES
    sys_modules,            \* sys.modules: the names of the modules loaded in the host
    dicts,                  \* the dict objects: dicts[id] is the content of dict id
    builders,               \* the Globals objects: the id of each one's _globals
    scopes,                 \* the scopes returned so far: the id of each one
    shadow,                 \* history: what the owner of each scope put in it
    closures,               \* the halt_import closures: default_import and halted
    import_call             \* history: the last call of a scope's __import__

scopeVars == <<sys_modules, dicts, builders, scopes, shadow, closures, import_call>>

(* The heap snapshotter (inspector.py), called with the frames of a pause.    *)
VARIABLES
    f_chain,                \* the frame given to inspect and its f_back chain
    insp_pc,                \* position of Inspector.inspect
    snapshot,               \* the snapshot being built
    classes,                \* the set classes of inspect: the user classes seen so far
    cursor,                 \* the frame and the variable inspect is at
    walk,                   \* the calls of _inspect_object that wait for their members
    expanded                \* history: the objects whose members were taken, in order

inspVars == <<f_chain, insp_pc, snapshot, classes, cursor, walk, expanded>>

auxVars == <<scopeVars, inspVars>>

vars == <<engineVars, auxVars>>

-----------------------------------------------------------------------------
(* Bounds of the model.                                                      *)

MaxActions == 5     \* actions the controller sends in one run
MaxQueue == 2       \* actions waiting in the action queue at one time

-----------------------------------------------------------------------------
(* Messages.                                                                 *)

\* class Message / events.Event: a name and a value. A value that is a dict
\* is the set of its <<key, value>> pairs; None is the empty set.
Event(name, value) == [name |-> name, value |-> value]

\* class Actions (events.Actions in the tracer)
START == "start"
STEP == "step"
EVAL == "eval"
INPUT == "input"
\* events.Actions.QUIT, used by FrameProcessor.trace
QUIT == "quit"

\* class Results
STARTED == "started"
ERROR == "error"
DATA == "data"
PRODUCT == "product"

\* the expressions a controller sends to be evaluated, with eval()'s outcome:
\* "1+2" has the value 3, "1/0" raises ZeroDivisionError
Expressions == {"1+2", "1/0"}

PyEval(expression) ==
    IF expression = "1/0"
    THEN [raised |-> TRUE, exc |-> "ZeroDivisionError", value |-> ""]
    ELSE [raised |-> FALSE, exc |-> "", value |-> "3"]

EvalAction(expression, inspect) ==
    Event(EVAL, {<<"expression", expression>>,
                 <<"inspect", IF inspect THEN "True" ELSE "False">>})

\* every action a controller can send
ActionSet ==
    {Event(n, {}) : n \in {START, STEP, QUIT, INPUT}}
    \cup {EvalAction(e, i) : e \in Expressions, i \in BOOLEAN}

\* action.value[key]
Lookup(value, key) == (CHOOSE kv \in value : kv[1] = key)[2]

-----------------------------------------------------------------------------
(* Exceptions. Tracer.run catches with `except Exception`.                   *)

ExceptionClasses == {"SyntaxError", "ValueError", "ZeroDivisionError",
                     "NameError", "UnboundLocalError"}
BaseExceptionOnly == {"SystemExit", "KeyboardInterrupt"}

IsException(exc) == exc \in ExceptionClasses

-----------------------------------------------------------------------------
(* User programs: the source compiles or not; executing it, the interpreter  *)
(* delivers the events in order (each in a frame of some file); the program  *)
(* then returns, raises, or loops back to its second event; `catches` are    *)
(* the events that execute inside a try/except Exception of the program.     *)

FileName == "<script>"
Library == "lib.py"

\* an event: the frame it happens in, the file of the frame's code, its kind
Ev(frame, file, event) == [frame |-> frame, file |-> file, event |-> event]
\* an event of the module frame of the user program
U(event) == Ev("<module>", FileName, event)
\* an event of the frame of a function f defined in the user program
F(event) == Ev("f", FileName, event)
\* an event of the frame of a function of another file
L(event) == Ev("lib", Library, event)

\* frame.f_back: exec() in Tracer.run calls the module, the module calls f,
\* f calls the library
f_back(frame) ==
    CASE frame = "<module>" -> "Tracer.run"
      [] frame = "f" -> "<module>"
      [] OTHER -> "f"

\* a = 1\nb = 2\n
LinearProgram ==
    [compiles |-> TRUE, events |-> <<U("call"), U("line"), U("line"), U("return")>>,
     ending |-> "return", catches |-> {}]
\* a = (\n
SyntaxErrorProgram ==
    [compiles |-> FALSE, events |-> <<>>, ending |-> "return", catches |-> {}]
\* raise ValueError("x")\n
RaisingProgram ==
    [compiles |-> TRUE,
     events |-> <<U("call"), U("line"), U("exception"), U("return")>>,
     ending |-> "ValueError", catches |-> {}]
\* raise SystemExit\n
ExitingProgram ==
    [compiles |-> TRUE,
     events |-> <<U("call"), U("line"), U("exception"), U("return")>>,
     ending |-> "SystemExit", catches |-> {}]
\* while True:\n  pass\n
LoopProgram ==
    [compiles |-> TRUE, events |-> <<U("call"), U("line"), U("line")>>,
     ending |-> "loop", catches |-> {}]
\* while True:\n  try:\n    a = 1\n  except Exception:\n    pass\n
CatchingLoopProgram ==
    [compiles |-> TRUE, events |-> <<U("call"), U("line"), U("line"), U("line")>>,
     ending |-> "loop", catches |-> {3, 4}]
\* try:\n  a = 1\nexcept Exception:\n  pass\nb = 2\n
CatchingProgram ==
    [compiles |-> TRUE,
     events |-> <<U("call"), U("line"), U("line"), U("line"), U("return")>>,
     ending |-> "return", catches |-> {3}]
\* a program whose function f calls a function of another file, with opcode
\* tracing switched on in f
LibraryProgram ==
    [compiles |-> TRUE,
     events |-> <<U("call"), U("line"), F("call"), L("call"), L("line"),
                  L("return"), F("opcode"), F("return"), U("return")>>,
     ending |-> "return", catches |-> {}]

Programs == {LinearProgram, SyntaxErrorProgram, RaisingProgram, ExitingProgram,
             LoopProgram, CatchingLoopProgram, CatchingProgram, LibraryProgram}

-----------------------------------------------------------------------------
(* FrameUtil                                                                 *)

TRACEABLE_EVENTS == {"call", "line", "exception", "return"}

is_file(frame_file, name) == frame_file = name

is_traceable(event) == event \in TRACEABLE_EVENTS

-----------------------------------------------------------------------------
(* History.                                                                  *)

Get(msg) == [op |-> "get", msg |-> msg]
Put(msg) == [op |-> "put", msg |-> msg]
GetRaise == [op |-> "get_raise", msg |-> Event("closed", {})]


\* the engine puts the results msgs, after the history lg
Emits(lg, msgs) ==
    /\ result_queue' = result_queue \o msgs
    /\ log' = lg \o [i \in 1..Len(msgs) |-> Put(msgs[i])]

-----------------------------------------------------------------------------
(* The initial state: a Tracer constructed for some program, not yet run.    *)

EngineInit ==
    /\ action_queue = <<>>
    /\ closed = FALSE
    /\ sent = 0
    /\ result_queue = <<>>
    /\ log = <<>>
    /\ pc = "start"
    /\ trace_fn = "None"
    /\ program \in Programs
    /\ ip = 1
    /\ exec_call_frame = "None"
    /\ inspected_frame_count = 0

-----------------------------------------------------------------------------
(* scope.py: dict objects. A dict is the set of its <<key, value>> pairs; a  *)
(* value is an atom (a string, a function, None), a reference to a dict      *)
(* object, or a halt_import closure.                                         *)

MaxDicts == 7       \* dict objects allocated in one run

Val(v) == [kind |-> "val", id |-> 0, v |-> v]
Ref(id) == [kind |-> "dict", id |-> id, v |-> ""]
Closure(k) == [kind |-> "closure", id |-> k, v |-> ""]

DictHas(d, key) == \E kv \in d : kv[1] = key
DictSet(d, key, value) == {kv \in d : kv[1] # key} \cup {<<key, value>>}
DictPop(d, key) == {kv \in d : kv[1] # key}

\* class Globals: some default names
BUILTINS == "__builtins__"
FILE == "__file__"
NAME == "__name__"
\* class Modules
IMPORT == "__import__"

\* the host's builtins table (the names the model follows), dict number 1
HostBuiltins ==
    {<<n, Val(n)>> : n \in {"__import__", "compile", "exec", "open", "print"}}
HostId == 1

\* the modules that exist on the host, and the names a program imports
Installed == {"math", "socket", "sys"}
ModuleNames == {"math", "socket", "nonexistent"}

\* a shallow copy: a new dict with the same entries
ShallowCopy(ds, id) == Append(ds, ds[id])

\* copy.deepcopy of a scope: a new dict, and a new dict for the builtins
\* table it refers to; atoms and functions are shared. The new scope is the
\* last dict of the result.
DeepCopy(ds, id) ==
    IF DictHas(ds[id], BUILTINS) /\ Lookup(ds[id], BUILTINS).kind = "dict"
    THEN LET b == Lookup(ds[id], BUILTINS).id
         IN  ds \o <<ds[b], DictSet(ds[id], BUILTINS, Ref(Len(ds) + 1))>>
    ELSE Append(ds, ds[id])

\* Globals.__init__: a copy of the host's builtins table, and the _globals
\* that refers to it (the last dict of the result)
Globals_init(ds) ==
    ds \o <<ds[HostId],
            {<<BUILTINS, Ref(Len(ds) + 1)>>, <<FILE, Val("None")>>,
             <<NAME, Val("__main__")>>}>>

\* Globals.property on the _globals g
Globals_property(ds, g, name, value) ==
    [ds EXCEPT ![g] = DictSet(ds[g], name, value)]

\* Globals.builtin raises: AttributeError when the builtins slot holds no
\* dict, KeyError when a name to remove is not in the table
Globals_builtin_raises(ds, g, name, value) ==
    \/ Lookup(ds[g], BUILTINS).kind # "dict"
    \/ value = Val("None") /\ ~DictHas(ds[Lookup(ds[g], BUILTINS).id], name)

\* Globals.builtin on the _globals g: None removes the name
Globals_builtin(ds, g, name, value) ==
    LET b == Lookup(ds[g], BUILTINS).id
    IN  IF value # Val("None")
        THEN [ds EXCEPT ![b] = DictSet(ds[b], name, value)]
        ELSE [ds EXCEPT ![b] = DictPop(ds[b], name)]

\* Globals.build: return copy.deepcopy(self._globals)
Globals_build(ds, g) == DeepCopy(ds, g)

\* sandbox_scope: modules_to_keep
modules_to_keep == {"copy", "datetime", "functools", "itertools", "math", "random",
                    "re", "string", "time"}
builtins_to_remove == {"compile", "exec", "open"}

\* default_modules_names: [*sys.modules.keys()]
default_modules_names == sys_modules

\* Modules.apply raises: TypeError, AttributeError
Modules_apply_raises(ds, scope) ==
    \/ Lookup(ds[scope], BUILTINS).kind # "dict"
    \/ ~DictHas(ds[Lookup(ds[scope], BUILTINS).id], IMPORT)

\* Modules.apply (full = False): deep-copy the scope and replace __import__ in
\* the copy's builtins by the closure number k
Modules_apply(ds, scope, k) ==
    LET ds1 == DeepCopy(ds, scope)
        b == Lookup(ds1[Len(ds1)], BUILTINS).id
    IN  [ds1 EXCEPT ![b] = DictSet(ds1[b], IMPORT, Closure(k))]

\* the closure Modules._halt_import makes of the scope's __import__
halt_import_closure(ds, scope, halted) ==
    [default_import |-> Lookup(ds[Lookup(ds[scope], BUILTINS).id], IMPORT),
     halted |-> halted]

\* calling a value as the import primitive with a module name: the host's
\* __import__ returns the module and loads it, or raises for a module that
\* does not exist; another function put in its place returns its own result
HostImport(module) ==
    IF module \in Installed
    THEN [raised |-> "", returned |-> module, loads |-> {module}]
    ELSE [raised |-> "ModuleNotFoundError", returned |-> "", loads |-> {}]

CallAtom(value, module) ==
    IF value = Val(IMPORT) THEN HostImport(module)
    ELSE [raised |-> "", returned |-> value.v, loads |-> {}]

\* halt_import(module, global_scope, local_scope, attributes, level): raise
\* for a halted module; otherwise call default_import and return nothing
halt_import(closure, module) ==
    IF module \in closure.halted
    THEN [raised |-> "ModuleNotFoundError", returned |-> "", loads |-> {}]
    ELSE LET r == CallAtom(closure.default_import, module)
         IN  IF r.raised # "" THEN r
             ELSE [raised |-> "", returned |-> "None", loads |-> r.loads]

\* what the owner of a scope sees: its entries and those of its builtins table
View(ds, scope) ==
    [top |-> ds[scope],
     builtins |-> IF DictHas(ds[scope], BUILTINS)
                     /\ Lookup(ds[scope], BUILTINS).kind = "dict"
                  THEN ds[Lookup(ds[scope], BUILTINS).id]
                  ELSE {}]

NoCall == [module |-> "", wrapped |-> FALSE, raised |-> "", returned |-> "",
           host |-> HostImport("nonexistent")]

\* the scope builder before any call
ScopeIdle ==
    /\ sys_modules = {"sys"}
    /\ dicts = <<HostBuiltins>>
    /\ builders = <<>>
    /\ scopes = <<>>
    /\ shadow = <<>>
    /\ closures = <<>>
    /\ import_call = NoCall

\* the host has loaded some of its modules
ScopeInit ==
    /\ sys_modules \in {{"sys"}, {"sys", "socket"}}
    /\ dicts = <<HostBuiltins>>
    /\ builders = <<>>
    /\ scopes = <<>>
    /\ shadow = <<>>
    /\ closures = <<>>
    /\ import_call = NoCall

\* a scope is returned to a caller
Returns(ds) ==
    /\ dicts' = ds
    /\ scopes' = Append(scopes, Len(ds))
    /\ shadow' = Append(shadow, View(ds, Len(ds)))

\* Globals()
NewGlobals ==
    /\ Len(dicts) + 2 <= MaxDicts
    /\ dicts' = Globals_init(dicts)
    /\ builders' = Append(builders, Len(dicts'))
    /\ UNCHANGED <<sys_modules, scopes, shadow, closures, import_call, engineVars, inspVars>>

\* builder.property(name, value)
Property(b, name, value) ==
    /\ dicts' = Globals_property(dicts, builders[b], name, value)
    /\ UNCHANGED <<sys_modules, builders, scopes, shadow, closures, import_call,
                   engineVars, inspVars>>

\* builder.builtin(name, value); a call that raises changes nothing
Builtin(b, name, value) ==
    /\ dicts' = IF Globals_builtin_raises(dicts, builders[b], name, value)
                THEN dicts
                ELSE Globals_builtin(dicts, builders[b], name, value)
    /\ UNCHANGED <<sys_modules, builders, scopes, shadow, closures, import_call,
                   engineVars, inspVars>>

\* builder.build()
Build(b) ==
    /\ Len(dicts) + 2 <= MaxDicts
    /\ Returns(Globals_build(dicts, builders[b]))
    /\ UNCHANGED <<sys_modules, builders, closures, import_call, engineVars, inspVars>>

\* default_scope(file)
default_scope(file) ==
    /\ Len(dicts) + 4 <= MaxDicts
    /\ LET ds1 == Globals_init(dicts)
           g == Len(ds1)
           ds2 == Globals_property(ds1, g, FILE, Val(file))
       IN  /\ Returns(Globals_build(ds2, g))
           /\ builders' = Append(builders, g)
    /\ UNCHANGED <<sys_modules, closures, import_call, engineVars, inspVars>>

\* the builtins table of the builder g with the names removed one by one
RECURSIVE RemoveBuiltins(_, _, _)
RemoveBuiltins(ds, g, names) ==
    IF names = {} THEN ds
    ELSE LET n == CHOOSE x \in names : TRUE
         IN  RemoveBuiltins(Globals_builtin(ds, g, n, Val("None")), g, names \ {n})

\* sandbox_scope(file)
sandbox_scope(file) ==
    /\ Len(dicts) + 6 <= MaxDicts
    /\ LET modules_to_remove ==
               {module \in default_modules_names : module \notin modules_to_keep}
           ds1 == Globals_init(dicts)
           g == Len(ds1)
           ds2 == Globals_property(ds1, g, FILE, Val(file))
           ds3 == RemoveBuiltins(ds2, g, builtins_to_remove)
           ds4 == Globals_build(ds3, g)
           built == Len(ds4)
       IN  /\ ~Modules_apply_raises(ds4, built)
           /\ closures' = Append(closures,
                                 halt_import_closure(ds4, built, modules_to_remove))
           /\ Returns(Modules_apply(ds4, built, Len(closures) + 1))
           /\ builders' = Append(builders, g)
    /\ UNCHANGED <<sys_modules, import_call, engineVars, inspVars>>

\* the owner of a returned scope adds, replaces or removes one of its entries
\* (table "top") or one of the entries of its builtins table
MutateScope(i, table, key, value) ==
    /\ LET id == IF table = "top" THEN scopes[i]
                 ELSE Lookup(dicts[scopes[i]], BUILTINS).id
           new == IF value = Val("None") THEN DictPop(dicts[id], key)
                  ELSE DictSet(dicts[id], key, value)
       IN  /\ dicts' = [dicts EXCEPT ![id] = new]
           /\ shadow' = [shadow EXCEPT ![i] =
                           IF table = "top" THEN [@ EXCEPT !.top = new]
                           ELSE [@ EXCEPT !.builtins = new]]
    /\ UNCHANGED <<sys_modules, builders, scopes, closures, import_call, engineVars, inspVars>>

\* the program run in scope i imports a module: __import__ of the scope's
\* builtins table is called
Import(i, module) ==
    /\ DictHas(View(dicts, scopes[i]).builtins, IMPORT)
    /\ LET f == Lookup(View(dicts, scopes[i]).builtins, IMPORT)
           r == IF f.kind = "closure" THEN halt_import(closures[f.id], module)
                ELSE CallAtom(f, module)
       IN  /\ sys_modules' = sys_modules \cup r.loads
           /\ import_call' =
                [module |-> module, wrapped |-> f.kind = "closure",
                 raised |-> r.raised, returned |-> r.returned,
                 host |-> IF f.kind = "closure"
                          THEN CallAtom(closures[f.id].default_import, module)
                          ELSE CallAtom(f, module)]
    /\ UNCHANGED <<dicts, builders, scopes, shadow, closures, engineVars, inspVars>>

\* the calls a client of scope.py makes, and what the program does to its scope
BuilderProperty ==
    \E b \in 1..Len(builders) :
        \/ Property(b, FILE, Val("x"))
        \/ Property(b, BUILTINS, Val("x"))

BuilderBuiltin ==
    \E b \in 1..Len(builders), value \in {Val("x"), Val("None")} :
        Builtin(b, "print", value)

BuilderBuild == \E b \in 1..Len(builders) : Build(b)

DefaultScope == default_scope(FileName)

SandboxScope == sandbox_scope(FileName)

ScopeMutated ==
    \E i \in 1..Len(scopes), value \in {Val("x"), Val("None")} :
        \/ MutateScope(i, "top", "x", value)
        \/ /\ Lookup(dicts[scopes[i]], BUILTINS).kind = "dict"
           /\ MutateScope(i, "builtins", "print", value)

ProgramImports == \E i \in 1..Len(scopes), module \in ModuleNames : Import(i, module)

ScopeNext ==
    \/ NewGlobals
    \/ BuilderProperty
    \/ BuilderBuiltin
    \/ BuilderBuild
    \/ DefaultScope
    \/ SandboxScope
    \/ ScopeMutated
    \/ ProgramImports

-----------------------------------------------------------------------------
(* The heap snapshotter: Inspector.inspect and Inspector._inspect_object.    *)
(* A Python string is the sequence of its characters.                        *)

\* the longest f_locals of the module frame the model tries
MaxLocals == 3

\* the deepest nesting of _inspect_object calls the model follows
MaxDepth == 4

\* str.startswith
startswith(s, prefix) == Len(s) >= Len(prefix) /\ SubSeq(s, 1, Len(prefix)) = prefix

\* the objects of the program: kind is the built-in type isinstance finds, an
\* int is n * 2^exp, s is the text of a str, name and module are __name__ and
\* __module__ of a class, type is type(obj) of an object of no built-in kind,
\* items are the elements of a container, the pairs of a dict or the pairs of
\* vars(obj)
Obj(kind) == [kind |-> kind, n |-> 0, exp |-> 0, s |-> <<>>, name |-> <<>>,
              module |-> <<>>, type |-> 0, items |-> <<>>]

IntObj(n, exp) == [Obj("int") EXCEPT !.n = n, !.exp = exp]
StrObj(s) == [Obj("str") EXCEPT !.s = s]
TypeObj(name, module) == [Obj("type") EXCEPT !.name = name, !.module = module]
Container(kind, items) == [Obj(kind) EXCEPT !.items = items]
Instance(type, attributes) == [Obj("object") EXCEPT !.type = type, !.items = attributes]

UserModule == <<"_", "_", "m", "a", "i", "n", "_", "_">>
BuiltinsModule == <<"b", "u", "i", "l", "t", "i", "n", "s">>

\* the heap of the program at the pause; id(obj) is the index of obj
\*   class C: ...            a = [];  a.append(a); a.append(1)
\*   c = C(); c2 = C()       c.x = 1; c._h = None; c.peer = c2; c2.peer = c
\*   d = {(1,): c}           def f(): ...
Objects == <<
    IntObj(0, 0),                                       \*  1: 0
    IntObj(1, 0),                                       \*  2: 1
    IntObj(1, 53),                                      \*  3: 2 ** 53
    StrObj(<<"x">>),                                    \*  4
    StrObj(<<"_", "h">>),                               \*  5
    StrObj(<<"p", "e", "e", "r">>),                     \*  6
    Obj("NoneType"),                                    \*  7: None
    [Obj("bool") EXCEPT !.n = 1],                       \*  8: True
    StrObj(UserModule),                                 \*  9
    TypeObj(<<"C">>, UserModule),                       \* 10: class C
    TypeObj(<<"f", "u", "n", "c", "t", "i", "o", "n">>, BuiltinsModule),   \* 11
    Instance(11, <<>>),                                 \* 12: f
    Container("list", <<13, 2>>),                       \* 13: a
    Instance(10, <<<<4, 2>>, <<5, 7>>, <<6, 15>>>>),    \* 14: c
    Instance(10, <<<<6, 14>>>>),                        \* 15: c2
    Container("tuple", <<2>>),                          \* 16: (1,)
    Container("dict", <<<<16, 14>>>>),                  \* 17: d
    Container("set", <<2>>)                             \* 18: {1}
>>

\* the int object enumerate gives for index k (CPython keeps one object for
\* each small int)
IndexObj(k) == k + 1

\* the Values of a snapshot: a number, a string, or the reference [id]
Number(n, exp) == [kind |-> "number", n |-> n, exp |-> exp]
Text(s) == [kind |-> "string", s |-> s]
HeapRef(id_) == [kind |-> "ref", id |-> id_]

\* str(obj) of the objects _inspect_object turns into strings
str(o) ==
    CASE o.kind = "bool" -> IF o.n = 1 THEN <<"T", "r", "u", "e">>
                            ELSE <<"F", "a", "l", "s", "e">>
      [] o.kind = "NoneType" -> <<"N", "o", "n", "e">>
      [] o.kind = "str" -> o.s
      [] o.kind = "int" /\ o.n = 1 /\ o.exp = 53 ->
            <<"9", "0", "0", "7", "1", "9", "9", "2", "5", "4", "7", "4", "0", "9",
              "9", "2">>
      [] o.kind = "type" ->
            <<"<", "c", "l", "a", "s", "s", " ", "'">>
            \o (IF o.module = BuiltinsModule THEN <<>> ELSE o.module \o <<".">>)
            \o o.name \o <<"'", ">">>

\* str(id(obj))
id_(id) == ToString(id)

\* abs(obj) < 2 ** 53
BelowTwoTo53(o) == o.n = 0 \/ (o.n \in {-1, 1} /\ o.exp < 53)

\* the objects _inspect_object returns inline, and what it returns for them
is_scalar(o) == o.kind \in {"bool", "complex", "NoneType", "str", "int", "float"}

scalar_value(o) ==
    IF o.kind \in {"bool", "complex", "NoneType", "str"} THEN Text(str(o))
    ELSE IF BelowTwoTo53(o) THEN Number(o.n, o.exp)
    ELSE Text(str(o))

\* [*enumerate(obj)]
enumerate(items) == [k \in 1..Len(items) |-> <<IndexObj(k - 1), items[k]>>]

\* no name is elided
is_public_All(name) == TRUE

\* a name that is not elided
is_public(name) == ~startswith(name, <<"_">>)

\* a mapping with no key 'members': members is None
NoMembers == [known |-> FALSE, type |-> "other", userDefined |-> FALSE, members |-> <<>>]

\* generic_type, user_defined and members of an object that is no scalar and
\* no class
members_of(o, cls) ==
    CASE o.kind \in {"tuple", "list", "set"} ->
            [known |-> TRUE,
             type |-> IF o.kind = "tuple" THEN "tuple"
                      ELSE IF o.kind = "list" THEN "alist" ELSE "set",
             userDefined |-> FALSE, members |-> enumerate(o.items)]
      [] o.kind = "dict" ->
            [known |-> TRUE, type |-> "map", userDefined |-> FALSE, members |-> o.items]
      [] o.kind = "object" /\ o.type \in cls ->
            [known |-> TRUE, type |-> "other", userDefined |-> TRUE,
             members |-> SelectSeq(o.items, LAMBDA kv : is_public(Objects[kv[1]].s))]
      [] OTHER -> NoMembers

\* type(obj).__name__
language_type(o) ==
    IF o.kind = "object" THEN Objects[o.type].name
    ELSE CASE o.kind = "tuple" -> <<"t", "u", "p", "l", "e">>
           [] o.kind = "list" -> <<"l", "i", "s", "t">>
           [] o.kind = "set" -> <<"s", "e", "t">>
           [] o.kind = "dict" -> <<"d", "i", "c", "t">>

\* classes.add(obj) when obj.__module__ == module
add_class(cls, id, module) ==
    IF Objects[id].module = module THEN cls \cup {id} ELSE cls

\* a frame: its identity, f_code.co_filename, f_lineno, f_code.co_name, the
\* items of f_locals in order, and f_globals['__name__']
Frame(frame, file, line, name, locals, module) ==
    [frame |-> frame, co_filename |-> file, f_lineno |-> line, co_name |-> name,
     f_locals |-> locals, globals_name |-> module]

\* the bindings a user program may have made at module level
Bindings == {<<<<"C">>, 10>>, <<<<"c">>, 14>>, <<<<"a">>, 13>>, <<<<"d">>, 17>>,
             <<<<"f">>, 12>>, <<<<"n">>, 3>>, <<<<"t">>, 8>>, <<<<"s">>, 18>>,
             <<<<"_", "p">>, 2>>}

\* f_locals of the module frame: what the scope held, then the bindings of the
\* program in the order it made them
ModuleLocals ==
    {<<<<UserModule, 9>>>> \o s :
        s \in {s \in UNION {[1..k -> Bindings] : k \in 0..MaxLocals} :
                  \A i, j \in DOMAIN s : i # j => s[i] # s[j]}}

ExecFrame == Frame("Tracer.run", Library, 45, <<"r", "u", "n">>, <<>>, <<"t", "r", "a", "c", "e", "r">>)
HostFrame == Frame("host", Library, 1, <<"<", "m", "o", "d", "u", "l", "e", ">">>, <<>>, <<"h", "o", "s", "t">>)
ModuleFrame(locals) ==
    Frame("<module>", FileName, 9, <<"<", "m", "o", "d", "u", "l", "e", ">">>, locals, UserModule)
MethodFrame ==
    Frame("m", FileName, 3, <<"m">>, <<<<<<"s", "e", "l", "f">>, 15>>, <<<<"_", "t">>, 2>>>>,
          UserModule)
LibraryFrame ==
    Frame("sorted", Library, 7, <<"s", "o", "r", "t", "e", "d">>, <<<<<<"z">>, 13>>>>,
          <<"l", "i", "b">>)

\* the frame of a pause with its f_back chain: the module frame, or a method
\* of the program called from library code called from the module
Chains ==
    UNION {{<<ModuleFrame(l), ExecFrame, HostFrame>>,
            <<MethodFrame, LibraryFrame, ModuleFrame(l), ExecFrame, HostFrame>>} :
           l \in ModuleLocals}

\* the frames from frame down to exec_call_frame, that one excluded
frames_until(chain, exec) ==
    LET k == CHOOSE k \in 1..Len(chain) :
                 /\ chain[k].frame = exec
                 /\ \A j \in 1..(k - 1) : chain[j].frame # exec
    IN  SubSeq(chain, 1, k - 1)

reverse(s) == [k \in 1..Len(s) |-> s[Len(s) + 1 - k]]

\* the frames inspect keeps: those of the file of the paused frame, outermost first
retained(chain, exec) ==
    LET file == chain[1].co_filename
    IN  reverse(SelectSeq(frames_until(chain, exec), LAMBDA f : f.co_filename = file))

Frames == retained(f_chain, "Tracer.run")

\* frames[-1].f_globals['__name__']
module == Frames[Len(Frames)].globals_name

\* the bindings of a frame inspect walks
public_locals(f) == SelectSeq(f.f_locals, LAMBDA nv : is_public(nv[1]))

\* no object is found in the heap
in_heap_Never(heap, id) == FALSE

\* id_ in snapshot['heap']
in_heap(heap, id) == \E k \in 1..Len(heap) : heap[k].id = id

\* the slot is not inserted
insert_slot_Skipped(heap, entry) == heap

\* snapshot['heap'][id_] = {} with type, languageType and userDefined
insert_slot(heap, entry) == Append(heap, entry)

\* obj['members'] = [...]
set_members(heap, id, members) ==
    [k \in 1..Len(heap) |->
        IF heap[k].id = id
        THEN [id |-> id, type |-> heap[k].type, languageType |-> heap[k].languageType,
              userDefined |-> heap[k].userDefined, members |-> members]
        ELSE heap[k]]

NoSnapshot == [type |-> "", stack |-> <<>>, heap |-> <<>>]

\* inspect is not called
InspectorIdle ==
    /\ f_chain = <<ModuleFrame(<<>>), ExecFrame, HostFrame>>
    /\ insp_pc = "idle"
    /\ snapshot = NoSnapshot
    /\ classes = {}
    /\ cursor = [i |-> 1, j |-> 1, variables |-> <<>>]
    /\ walk = <<>>
    /\ expanded = <<>>

\* the program paused in some state of its frames and objects
InspectInit ==
    /\ f_chain \in Chains
    /\ insp_pc = "idle"
    /\ snapshot = NoSnapshot
    /\ classes = {}
    /\ cursor = [i |-> 1, j |-> 1, variables |-> <<>>]
    /\ walk = <<>>
    /\ expanded = <<>>

\* inspect(frame, event, args, exec_call_frame) up to the loop over the frames
Inspector_inspect(event) ==
    /\ insp_pc = "idle"
    /\ snapshot' =
         [type |-> event,
          stack |-> [k \in 1..Len(Frames) |->
                        [line |-> Frames[k].f_lineno - 1, name |-> Frames[k].co_name]],
          heap |-> <<>>]
    /\ classes' = {}
    /\ cursor' = [i |-> 1, j |-> 1, variables |-> <<>>]
    /\ walk' = <<>>
    /\ expanded' = <<>>
    /\ insp_pc' = "walking"
    /\ UNCHANGED <<f_chain, engineVars, scopeVars>>

\* _inspect_object is called next: with a member of the object on top of walk,
\* or with a variable of the frame inspect is at
Calling ==
    /\ insp_pc = "walking"
    /\ IF walk # <<>> THEN walk[Len(walk)].pos <= Len(walk[Len(walk)].members)
       ELSE /\ cursor.i <= Len(Frames)
            /\ cursor.j <= Len(public_locals(Frames[cursor.i]))

\* the id of the object it is called with
Target ==
    IF walk # <<>>
    THEN LET t == walk[Len(walk)]
         IN  t.members[t.pos][IF t.part = "key" THEN 1 ELSE 2]
    ELSE public_locals(Frames[cursor.i])[cursor.j][2]

\* _inspect_object returns value to the caller whose pending calls are w
Return(w, value) ==
    IF w = <<>>
    THEN /\ walk' = w
         /\ cursor' = [cursor EXCEPT
                         !.j = @ + 1,
                         !.variables =
                            Append(@, [name |-> public_locals(Frames[cursor.i])[cursor.j][1],
                                       value |-> value])]
    ELSE LET n == Len(w)
         IN  /\ cursor' = cursor
             /\ walk' = IF w[n].part = "key"
                        THEN [w EXCEPT ![n].key = value, ![n].part = "value"]
                        ELSE [w EXCEPT ![n].acc = Append(@, [key |-> w[n].key,
                                                              value |-> value]),
                                       ![n].pos = @ + 1,
                                       ![n].part = "key"]

\* bool, complex, None, str, int, float: returned inline
InspectScalar ==
    /\ Calling
    /\ is_scalar(Objects[Target])
    /\ Return(walk, scalar_value(Objects[Target]))
    /\ UNCHANGED <<f_chain, insp_pc, snapshot, classes, expanded, engineVars, scopeVars>>

\* a class: remembered when it is of the module, returned as its string
InspectClass ==
    /\ Calling
    /\ Objects[Target].kind = "type"
    /\ classes' = add_class(classes, Target, module)
    /\ Return(walk, Text(str(Objects[Target])))
    /\ UNCHANGED <<f_chain, insp_pc, snapshot, expanded, engineVars, scopeVars>>

\* an object that has its slot: the reference to it
InspectSeen ==
    /\ Calling
    /\ ~is_scalar(Objects[Target]) /\ Objects[Target].kind # "type"
    /\ in_heap(snapshot.heap, id_(Target))
    /\ Return(walk, HeapRef(id_(Target)))
    /\ UNCHANGED <<f_chain, insp_pc, snapshot, classes, expanded, engineVars, scopeVars>>

\* a container or an instance of a class in classes: the slot is inserted, the
\* members are walked next
InspectComposite ==
    /\ Calling
    /\ ~is_scalar(Objects[Target]) /\ Objects[Target].kind # "type"
    /\ ~in_heap(snapshot.heap, id_(Target))
    /\ Len(walk) < MaxDepth
    /\ LET m == members_of(Objects[Target], classes)
       IN  /\ m.known
           /\ snapshot' = [snapshot EXCEPT !.heap =
                             insert_slot(@, [id |-> id_(Target), type |-> m.type,
                                             languageType |-> language_type(Objects[Target]),
                                             userDefined |-> m.userDefined])]
           /\ walk' = Append(walk, [id |-> Target, members |-> m.members, pos |-> 1,
                                    part |-> "key", key |-> Text(<<>>), acc |-> <<>>])
           /\ expanded' = Append(expanded, Target)
    /\ UNCHANGED <<f_chain, insp_pc, classes, cursor, engineVars, scopeVars>>

\* any other object: its type is inspected in its place
InspectUnknown ==
    /\ Calling
    /\ ~is_scalar(Objects[Target]) /\ Objects[Target].kind # "type"
    /\ ~in_heap(snapshot.heap, id_(Target))
    /\ ~members_of(Objects[Target], classes).known
    /\ classes' = add_class(classes, Objects[Target].type, module)
    /\ Return(walk, Text(str(Objects[Objects[Target].type])))
    /\ UNCHANGED <<f_chain, insp_pc, snapshot, expanded, engineVars, scopeVars>>

\* every member of the object on top of walk is inspected: return [id_]
MembersDone ==
    /\ insp_pc = "walking"
    /\ walk # <<>>
    /\ LET n == Len(walk)
           t == walk[n]
       IN  /\ t.pos > Len(t.members)
           /\ snapshot' = [snapshot EXCEPT !.heap = set_members(@, id_(t.id), t.acc)]
           /\ Return(SubSeq(walk, 1, n - 1), HeapRef(id_(t.id)))
    /\ UNCHANGED <<f_chain, insp_pc, classes, expanded, engineVars, scopeVars>>

\* every variable of the frame is inspected: the record of the frame gets its
\* variables; after the last frame inspect returns the snapshot
FrameDone ==
    /\ insp_pc = "walking"
    /\ walk = <<>>
    /\ cursor.i <= Len(Frames)
    /\ cursor.j > Len(public_locals(Frames[cursor.i]))
    /\ snapshot' = [snapshot EXCEPT !.stack[cursor.i] =
                      [line |-> @.line, name |-> @.name, variables |-> cursor.variables]]
    /\ cursor' = [i |-> cursor.i + 1, j |-> 1, variables |-> <<>>]
    /\ insp_pc' = IF cursor.i = Len(Frames) THEN "done" ELSE "walking"
    /\ UNCHANGED <<f_chain, classes, walk, expanded, engineVars, scopeVars>>

\* the pause of a line event
InspectCalled == Inspector_inspect("line")

InspectNext ==
    \/ InspectCalled
    \/ InspectScalar
    \/ InspectClass
    \/ InspectSeen
    \/ InspectComposite
    \/ InspectUnknown
    \/ MembersDone
    \/ FrameDone

\* the snapshotter alone: the Tracer is constructed and not run
InspectSpecInit == EngineInit /\ program = LinearProgram /\ ScopeIdle /\ InspectInit

InspectSpec == InspectSpecInit /\ [][InspectNext]_vars

\* inspect is an ordinary call: it runs on until it returns
InspectFairSpec == InspectSpec /\ WF_vars(InspectNext)

\* the scope builder alone: the Tracer is constructed and not run
ScopeSpecInit == EngineInit /\ program = LinearProgram /\ ScopeInit /\ InspectorIdle

ScopeSpec == ScopeSpecInit /\ [][ScopeNext]_vars

-----------------------------------------------------------------------------
(* The controller.                                                           *)

\* the controller sends START first, then whatever it likes
Send(action) ==
    /\ UNCHANGED auxVars
    /\ ~closed
    /\ sent = 0 => action.name = START
    /\ sent < MaxActions
    /\ Len(action_queue) < MaxQueue
    /\ action_queue' = Append(action_queue, action)
    /\ sent' = sent + 1
    /\ UNCHANGED <<closed, result_queue, log, pc, trace_fn, program, ip,
                   exec_call_frame, inspected_frame_count>>

Close ==
    /\ UNCHANGED auxVars
    /\ ~closed
    /\ closed' = TRUE
    /\ UNCHANGED <<action_queue, sent, result_queue, log, pc, trace_fn, program, ip,
                   exec_call_frame, inspected_frame_count>>

\* action_queue.get() returns an action
CanGet == action_queue # <<>>
\* action_queue.get() fails: the queue is closed and nothing is left in it
GetFails == action_queue = <<>> /\ closed

-----------------------------------------------------------------------------
(* Tracer.run                                                                *)

\* a finally clause that leaves the hook as it is
FinallyKeepsHook == trace_fn

\* finally: sys.settrace(None)
Finally == "None"

\* except Exception as e: put ERROR str(e); finally: uninstall the hook.
\* An exception that is no Exception passes the except clause and leaves run.
RunExcept(lg, exc) ==
    /\ Emits(lg, IF IsException(exc)
                 THEN <<Event(ERROR, {<<"message", exc>>})>>
                 ELSE <<>>)
    /\ trace_fn' = Finally
    /\ pc' = IF IsException(exc) THEN "returned" ELSE "propagated"

\* Tracer.run that installs the hook and executes without putting STARTED
Tracer_run_NoStarted ==
    /\ UNCHANGED auxVars
    /\ pc = "start"
    /\ CanGet
    /\ action_queue' = Tail(action_queue)
    /\ LET action == Head(action_queue)
           lg == Append(log, Get(action))
       IN  IF program.compiles
           THEN /\ Emits(lg, <<>>)
                /\ trace_fn' = "trace"
                /\ pc' = "running"
           ELSE RunExcept(lg, "SyntaxError")
    /\ UNCHANGED <<closed, sent, program, ip, exec_call_frame, inspected_frame_count>>

\* Tracer.run that puts STARTED before it compiles
Tracer_run_StartedFirst ==
    /\ UNCHANGED auxVars
    /\ pc = "start"
    /\ CanGet
    /\ action_queue' = Tail(action_queue)
    /\ LET action == Head(action_queue)
           lg == Append(log, Get(action))
       IN  IF program.compiles
           THEN /\ Emits(lg, <<Event(STARTED, {})>>)
                /\ trace_fn' = "trace"
                /\ pc' = "running"
           ELSE /\ Emits(lg, <<Event(STARTED, {}),
                               Event(ERROR, {<<"message", "SyntaxError">>})>>)
                /\ trace_fn' = Finally
                /\ pc' = "returned"
    /\ UNCHANGED <<closed, sent, program, ip, exec_call_frame, inspected_frame_count>>

\* the try block up to exec: get the first action, compile, put STARTED,
\* install the hook
Tracer_run ==
    /\ UNCHANGED auxVars
    /\ pc = "start"
    /\ CanGet
    /\ action_queue' = Tail(action_queue)
    /\ LET action == Head(action_queue)
           lg == Append(log, Get(action))
       IN  IF program.compiles
           THEN /\ Emits(lg, <<Event(STARTED, {})>>)
                /\ trace_fn' = "trace"
                /\ pc' = "running"
           ELSE RunExcept(lg, "SyntaxError")
    /\ UNCHANGED <<closed, sent, program, ip, exec_call_frame, inspected_frame_count>>

\* the first get fails
Tracer_run_GetFails ==
    /\ UNCHANGED auxVars
    /\ pc = "start"
    /\ GetFails
    /\ RunExcept(Append(log, GetRaise), "ValueError")
    /\ UNCHANGED <<action_queue, closed, sent, program, ip, exec_call_frame,
                   inspected_frame_count>>

\* exec(compiled, script_scope) ends: the program returns, raises, or loops
ProgramEnds ==
    /\ UNCHANGED auxVars
    /\ pc = "running"
    /\ ip > Len(program.events)
    /\ CASE program.ending = "loop" ->
              /\ ip' = 2
              /\ UNCHANGED <<result_queue, log, trace_fn, pc>>
         [] program.ending = "return" ->
              /\ Emits(log, <<>>)
              /\ trace_fn' = Finally
              /\ pc' = "returned"
              /\ ip' = ip
         [] OTHER ->
              /\ RunExcept(log, program.ending)
              /\ ip' = ip
    /\ UNCHANGED <<action_queue, closed, sent, program, exec_call_frame,
                   inspected_frame_count>>

-----------------------------------------------------------------------------
(* FrameProcessor                                                            *)

\* the modules tracer.py imports: traceback is not among them
TracebackImported == FALSE

\* evaluate_expression: eval the expression; when it raises an Exception the
\* except clause builds the record with traceback.format_exception, which
\* raises NameError when traceback is not imported; `finally: return
\* {'product': product}` then reads the unbound local and raises
\* UnboundLocalError, which is what leaves the function.
evaluate_expression(expression) ==
    LET r == PyEval(expression)
    IN  IF ~r.raised
        THEN [raised |-> FALSE, exc |-> "", value |-> {<<"product", r.value>>}]
        ELSE IF TracebackImported
        THEN [raised |-> FALSE, exc |-> "",
              value |-> {<<"product", "{type, value, traceback}">>}]
        ELSE [raised |-> TRUE, exc |-> "UnboundLocalError", value |-> {}]

\* inspection = {}  # self.inspect_state(frame, event, args) if inspect else {}
Inspection(inspect) == {}

\* {**inspection, **product}
Merge(inspection, product) ==
    {kv \in inspection : \A kw \in product : kw[1] # kv[1]} \cup product

\* an exception leaves the hook: the interpreter unsets the hook and raises the
\* exception in the frame of the event; the program catches it and goes on
\* untraced, or it leaves exec and reaches the except clause of Tracer.run
TraceRaises(lg, exc) ==
    IF ip \in program.catches
    THEN /\ Emits(lg, <<>>)
         /\ trace_fn' = "None"
         /\ pc' = "running"
         /\ ip' = ip + 1
    ELSE /\ RunExcept(lg, exc)
         /\ ip' = ip

\* the interpreter delivers an event to the hook, which returns at once:
\* not the user's file, or not a traceable event
TraceIgnored ==
    /\ UNCHANGED auxVars
    /\ pc = "running"
    /\ trace_fn = "trace"
    /\ ip <= Len(program.events)
    /\ LET e == program.events[ip]
       IN  ~is_file(e.file, FileName) \/ ~is_traceable(e.event)
    /\ ip' = ip + 1
    /\ UNCHANGED <<action_queue, closed, sent, result_queue, log, pc, trace_fn,
                   program, exec_call_frame, inspected_frame_count>>

\* a hook that takes the caller of every acted-upon event as the sentinel
TracePause_ReassignsSentinel ==
    /\ UNCHANGED auxVars
    /\ pc = "running"
    /\ trace_fn = "trace"
    /\ ip <= Len(program.events)
    /\ LET e == program.events[ip]
       IN  /\ is_file(e.file, FileName)
           /\ is_traceable(e.event)
           /\ exec_call_frame' = f_back(e.frame)
    /\ inspected_frame_count' = inspected_frame_count + 1
    /\ pc' = "paused"
    /\ UNCHANGED <<action_queue, closed, sent, result_queue, log, trace_fn, program, ip>>

\* the hook acts upon the event: it sets the sentinel frame, counts the event
\* and enters the action loop
TracePause ==
    /\ UNCHANGED auxVars
    /\ pc = "running"
    /\ trace_fn = "trace"
    /\ ip <= Len(program.events)
    /\ LET e == program.events[ip]
       IN  /\ is_file(e.file, FileName)
           /\ is_traceable(e.event)
           /\ exec_call_frame' = IF inspected_frame_count = 0
                                  THEN f_back(e.frame)
                                  ELSE exec_call_frame
    /\ inspected_frame_count' = inspected_frame_count + 1
    /\ pc' = "paused"
    /\ UNCHANGED <<action_queue, closed, sent, result_queue, log, trace_fn, program, ip>>

\* an event of the program while no hook is installed
Untraced ==
    /\ UNCHANGED auxVars
    /\ pc = "running"
    /\ trace_fn = "None"
    /\ ip <= Len(program.events)
    /\ ip' = ip + 1
    /\ UNCHANGED <<action_queue, closed, sent, result_queue, log, pc, trace_fn,
                   program, exec_call_frame, inspected_frame_count>>

\* the hold action EVAL: evaluate, put PRODUCT, continue the loop
TraceEval ==
    /\ UNCHANGED auxVars
    /\ pc = "paused"
    /\ CanGet
    /\ Head(action_queue).name = EVAL
    /\ action_queue' = Tail(action_queue)
    /\ LET action == Head(action_queue)
           lg == Append(log, Get(action))
           expression == Lookup(action.value, "expression")
           inspect == Lookup(action.value, "inspect") = "True"
           product == evaluate_expression(expression)
           inspection == Inspection(inspect)
       IN  IF product.raised
           THEN TraceRaises(lg, product.exc)
           ELSE /\ Emits(lg, <<Event(PRODUCT, Merge(inspection, product.value))>>)
                /\ UNCHANGED <<pc, trace_fn, ip>>
    /\ UNCHANGED <<closed, sent, program, exec_call_frame, inspected_frame_count>>

\* the results the loop puts for an action that is not EVAL, before its break
Progressive(action) ==
    IF action.name = STEP THEN <<Event(DATA, {<<"finish", "True">>})>>
    ELSE IF action.name = QUIT THEN <<Event(DATA, {})>>
    ELSE <<>>

\* any other action: STEP and QUIT put DATA; the loop breaks and the hook
\* returns itself, so the program goes on
TraceBreak ==
    /\ UNCHANGED auxVars
    /\ pc = "paused"
    /\ CanGet
    /\ Head(action_queue).name # EVAL
    /\ action_queue' = Tail(action_queue)
    /\ LET action == Head(action_queue)
       IN  Emits(Append(log, Get(action)), Progressive(action))
    /\ pc' = "running"
    /\ ip' = ip + 1
    /\ UNCHANGED <<closed, sent, trace_fn, program, exec_call_frame,
                   inspected_frame_count>>

\* the get of the action loop fails
TraceGetFails ==
    /\ UNCHANGED auxVars
    /\ pc = "paused"
    /\ GetFails
    /\ TraceRaises(Append(log, GetRaise), "ValueError")
    /\ UNCHANGED <<action_queue, closed, sent, program, exec_call_frame,
                   inspected_frame_count>>

-----------------------------------------------------------------------------

Engine ==
    \/ Tracer_run
    \/ Tracer_run_GetFails
    \/ ProgramEnds
    \/ TraceIgnored
    \/ TracePause
    \/ Untraced
    \/ TraceEval
    \/ TraceBreak
    \/ TraceGetFails

Controller ==
    \/ \E action \in ActionSet : Send(action)
    \/ Close

Init == EngineInit /\ ScopeIdle /\ InspectorIdle

Next == Engine \/ Controller

Spec == Init /\ [][Next]_vars

\* the engine is a process of its own: it runs whenever it is not waiting
\* for an action
FairSpec == Spec /\ WF_vars(Engine)

-----------------------------------------------------------------------------
(* Properties.                                                               *)

Terminated == pc \in {"returned", "propagated"}

\* the engine waits for an action that is not there, or has ended
Quiescent == Terminated \/ (pc = "paused" /\ action_queue = <<>> /\ ~closed)

\* how many results of this name were put
Count(name) == Cardinality({i \in 1..Len(result_queue) : result_queue[i].name = name})

\* the names of the actions the engine has received, in order
IsGet(x) == x.op = "get"
GetNames == LET g == SelectSeq(log, IsGet) IN [i \in 1..Len(g) |-> g[i].msg.name]

\* Tracer.run received its initial action
InitialReceived == log # <<>> /\ log[1].op = "get"

\* the entries of the history that are an action received in the action loop
LoopGets(name) ==
    {i \in 2..Len(log) : log[i].op = "get" /\ log[i].msg.name = name}

HasKey(value, key) == \E kv \in value : kv[1] = key
HasSnapshot(value) == \E kv \in value : kv[1] \in {"type", "stack", "heap"}

StartedFirst ==
    \A i \in 1..Len(result_queue) :
        result_queue[i].name \notin {STARTED, ERROR}
            => \E j \in 1..(i - 1) : result_queue[j].name = STARTED

\* C1: strict request/reply: after every action the engine receives, whatever
\* its kind, it puts a result before it receives the next action (no two
\* receives follow each other in the history).
C1_StrictRequestReply ==
    \A i \in 1..(Len(log) - 1) : log[i].op = "get" => log[i + 1].op # "get"

\* C2 (as claimed): every run that has ended has put exactly one STARTED, and
\* it comes before every other result that is not ERROR.
C2_ExactlyOneStartedInEveryRun ==
    Terminated => (Count(STARTED) = 1 /\ StartedFirst)

\* C2 (amended): exactly one STARTED is put once the initial action was
\* received and the source compiled, none when the compilation or the initial
\* receive fails, and STARTED comes before every other result that is not ERROR.
C2_StartedOnceIfCompiled ==
    /\ Count(STARTED) = IF InitialReceived /\ program.compiles THEN 1 ELSE 0
    /\ StartedFirst

C2_Witness ==
    /\ pc = "returned"
    /\ program.ending = "ValueError"
    /\ ip > Len(program.events)
    /\ Count(STARTED) = 1
    /\ Count(DATA) >= 1
    /\ Count(ERROR) = 1

\* C3: once QUIT was received at a pause the engine has put DATA{} as its last
\* result, reads no further action, executes no further event, and
\* Tracer.run has returned with the hook uninstalled.
C3_QuitTerminates ==
    \A i \in LoopGets(QUIT) :
        /\ i + 1 = Len(log)
        /\ log[i + 1] = Put(Event(DATA, {}))
        /\ pc = "returned"
        /\ trace_fn = "None"

\* C4: the program a = 1; b = 2 with the actions START, STEP, STEP, STEP: when
\* the engine has come to rest the results are STARTED, DATA{finish},
\* DATA{finish}, DATA{} and Tracer.run has returned.
C4_LinearScenario ==
    (program = LinearProgram /\ GetNames = <<START, STEP, STEP, STEP>> /\ Quiescent)
        => /\ result_queue = <<Event(STARTED, {}),
                               Event(DATA, {<<"finish", "True">>}),
                               Event(DATA, {<<"finish", "True">>}),
                               Event(DATA, {})>>
           /\ pc = "returned"

\* C5: an EVAL received at a pause whose expression raises is answered by one
\* PRODUCT holding the record {type, value, traceback}; no ERROR follows from
\* it and the engine stays paused, with its hook, at the same event.
C5_EvalFailureRecovered ==
    \A i \in LoopGets(EVAL) :
        PyEval(Lookup(log[i].msg.value, "expression")).raised
            => /\ i < Len(log)
               /\ log[i + 1].op = "put"
               /\ log[i + 1].msg.name = PRODUCT
               /\ <<"product", "{type, value, traceback}">> \in log[i + 1].msg.value
               /\ (i + 1 = Len(log) => (pc = "paused" /\ trace_fn = "trace"))

\* C6: every EVAL received at a pause is answered by exactly one PRODUCT that
\* carries the product, and carries a snapshot iff the inspect flag is true.
C6_EvalProductSnapshot ==
    \A i \in LoopGets(EVAL) :
        /\ i < Len(log)
        /\ log[i + 1].op = "put"
        /\ log[i + 1].msg.name = PRODUCT
        /\ HasKey(log[i + 1].msg.value, "product")
        /\ HasSnapshot(log[i + 1].msg.value)
              <=> (Lookup(log[i].msg.value, "inspect") = "True")
        /\ (i + 2 <= Len(log) => log[i + 2].op # "put")

\* C7: when the source does not compile the hook is never installed, no event
\* of the program is executed and no STARTED, DATA or PRODUCT is put; once
\* the initial action was received the only result is one ERROR, that action
\* is the only one read, and Tracer.run has returned.
C7_CompileFailureTerminal ==
    ~program.compiles =>
        /\ trace_fn = "None"
        /\ ip = 1
        /\ inspected_frame_count = 0
        /\ Count(STARTED) = 0 /\ Count(DATA) = 0 /\ Count(PRODUCT) = 0
        /\ InitialReceived =>
              /\ result_queue = <<Event(ERROR, {<<"message", "SyntaxError">>})>>
              /\ Len(GetNames) = 1
              /\ pc = "returned"

C7_Witness ==
    /\ ~program.compiles
    /\ InitialReceived
    /\ pc = "returned"
    /\ action_queue # <<>>
    /\ Count(ERROR) = 1

\* the user program raised, outside an evaluation, a failure it did not catch
UserProgramFailed ==
    /\ Terminated
    /\ ip > Len(program.events)
    /\ program.ending \notin {"return", "loop"}

\* C8: when the user program has raised an uncaught failure of whatever kind,
\* exactly one ERROR was put, it is the last result, and Tracer.run returned.
C8_UserFailureError ==
    UserProgramFailed =>
        /\ Count(ERROR) = 1
        /\ result_queue[Len(result_queue)].name = ERROR
        /\ pc = "returned"

\* C9: when Tracer.run has returned or propagated a failure no hook is
\* installed; a hook is installed only after STARTED was put and while
\* Tracer.run has not ended.
C9_HookUninstalled ==
    /\ Terminated => trace_fn = "None"
    /\ trace_fn = "trace" => (Count(STARTED) = 1 /\ pc \in {"running", "paused"})

C9_Witness ==
    /\ pc = "propagated"
    /\ trace_fn = "None"
    /\ inspected_frame_count > 0
    /\ Count(STARTED) = 1

\* a get of the engine failed because the action queue is closed
GetFailed == \E i \in 1..Len(log) : log[i].op = "get_raise"

\* C10: after a get that fails because the action queue is closed,
\* Tracer.run eventually ends with the hook uninstalled.
C10_ClosedTerminates ==
    [](GetFailed => <>(Terminated /\ trace_fn = "None"))

-----------------------------------------------------------------------------
(* Properties of the action loop and of the hook's filter.                   *)

\* the engine receives, in the action loop, an action of one of these names
LoopReceives(names) ==
    /\ pc = "paused"
    /\ action_queue # <<>>
    /\ Head(action_queue).name \in names
    /\ log' # log

\* C18: a STEP received in the action loop puts exactly one DATA{finish: true}
\* and releases the program with the hook in place; the program, once
\* released, stops at its next traceable event in the user's file; and the
\* program is released from a pause, hook in place, by a STEP only, so that
\* exactly one STEP is received between two consecutive pauses.
C18_OneStepBetweenPauses ==
    [][/\ LoopReceives({STEP}) =>
            /\ log' = log \o <<Get(Event(STEP, {})),
                                Put(Event(DATA, {<<"finish", "True">>}))>>
            /\ pc' = "running" /\ trace_fn' = "trace" /\ ip' = ip + 1
       /\ (pc = "running" /\ trace_fn = "trace" /\ ip <= Len(program.events)
              /\ program.events[ip].file = FileName
              /\ program.events[ip].event \in {"call", "line", "exception", "return"}
              /\ <<pc, ip>>' # <<pc, ip>>)
            => (pc' = "paused" /\ ip' = ip)
       /\ (pc = "paused" /\ pc' = "running" /\ trace_fn' = "trace")
            => LoopReceives({STEP})
      ]_vars

\* C19: an action received in the action loop that is none of EVAL, STEP,
\* QUIT puts nothing (or LOCKED) and leaves the engine paused at the same
\* event with the program not resumed.
C19_OtherActionsHold ==
    [][LoopReceives({START, INPUT}) =>
          /\ pc' = "paused"
          /\ ip' = ip
          /\ \A i \in (Len(result_queue) + 1)..Len(result_queue') :
                result_queue'[i].name = "locked"
      ]_vars

\* C20: an event delivered to the hook is acted upon (counted, and the engine
\* pauses at it) iff its frame is of the user's file and its kind is call,
\* line, exception or return; any other event is passed with no action read,
\* no result put, the sentinel and the counter unchanged and the hook kept.
\* The sentinel is the caller of the frame of the first acted-upon event and
\* no later event changes it.
C20_HookFilter ==
    [][/\ (pc = "running" /\ trace_fn = "trace" /\ ip <= Len(program.events)
              /\ <<pc, ip>>' # <<pc, ip>>)
            => IF /\ program.events[ip].file = FileName
                  /\ program.events[ip].event \in {"call", "line", "exception", "return"}
               THEN /\ pc' = "paused" /\ ip' = ip
                    /\ inspected_frame_count' = inspected_frame_count + 1
               ELSE /\ pc' = "running" /\ ip' = ip + 1
                    /\ UNCHANGED <<action_queue, result_queue, log, trace_fn,
                                   exec_call_frame, inspected_frame_count>>
       /\ exec_call_frame' =
            IF inspected_frame_count = 0 /\ inspected_frame_count' = 1
            THEN f_back(program.events[ip].frame)
            ELSE exec_call_frame
      ]_vars

C20_Witness ==
    /\ program = LibraryProgram
    /\ pc = "running"
    /\ trace_fn = "trace"
    /\ ip = 8
    /\ inspected_frame_count = 3
    /\ exec_call_frame = "Tracer.run"

-----------------------------------------------------------------------------
(* Properties of the scope builder (under ScopeSpec).                        *)

\* C11: the wrapped import of a sandbox scope, called with a module name that
\* is not on the allow-list, raises ModuleNotFoundError, whichever modules
\* were loaded in the host when the scope was built.
C11_DisallowedImportRaises ==
    (import_call.wrapped /\ import_call.module \notin modules_to_keep)
        => import_call.raised = "ModuleNotFoundError"

\* C12: the wrapped import of a sandbox scope, called with a module name on
\* the allow-list, raises nothing and returns what the host's import returns.
C12_AllowedImportPassesThrough ==
    (import_call.wrapped /\ import_call.module \in modules_to_keep)
        => /\ import_call.raised = ""
           /\ import_call.returned = import_call.host.returned

\* the id of the builtins table of the dict id, 0 when its slot holds no dict
BuiltinsOf(id) ==
    IF DictHas(dicts[id], BUILTINS) /\ Lookup(dicts[id], BUILTINS).kind = "dict"
    THEN Lookup(dicts[id], BUILTINS).id
    ELSE 0

\* C13: the builtins table of every returned scope is an object of its own
\* (not the host's, not a builder's, not another scope's), and every returned
\* scope holds what was built into it and what its owner did to it since,
\* whatever was done to builders and to other scopes.
C13_ScopeIsolation ==
    /\ \A i \in 1..Len(scopes) :
          /\ View(dicts, scopes[i]) = shadow[i]
          /\ BuiltinsOf(scopes[i]) # 0 =>
                /\ BuiltinsOf(scopes[i]) # HostId
                /\ \A b \in 1..Len(builders) :
                      /\ BuiltinsOf(scopes[i]) # BuiltinsOf(builders[b])
                      /\ scopes[i] # builders[b]
                /\ \A j \in 1..Len(scopes) :
                      j # i => /\ BuiltinsOf(scopes[j]) # BuiltinsOf(scopes[i])
                               /\ scopes[j] # scopes[i]
    /\ dicts[HostId] = HostBuiltins

C13_Witness ==
    /\ Len(builders) = 1
    /\ Len(scopes) = 2
    /\ <<"x", Val("x")>> \in shadow[1].top
    /\ ~DictHas(shadow[2].top, "x")
    /\ ~DictHas(shadow[1].builtins, "print")
    /\ <<"print", Val("x")>> \in shadow[2].builtins
    /\ <<"print", Val("print")>> \in dicts[BuiltinsOf(builders[1])]


-----------------------------------------------------------------------------
(* Properties of the heap snapshotter.                                       *)

Done == insp_pc = "done"

\* the heap entry of id, if there is one
Slots(id) == {k \in 1..Len(snapshot.heap) : snapshot.heap[k].id = id}

\* the Values of the snapshot: of the variables of the frame records and of
\* the keys and values of the members of the heap entries
SnapshotValues ==
    UNION {{r.variables[j].value : j \in 1..Len(r.variables)} :
           r \in {snapshot.stack[i] : i \in {i \in 1..Len(snapshot.stack) :
                                               "variables" \in DOMAIN snapshot.stack[i]}}}
    \cup
    UNION {{e.members[m].key : m \in 1..Len(e.members)}
           \cup {e.members[m].value : m \in 1..Len(e.members)} :
           e \in {snapshot.heap[k] : k \in {k \in 1..Len(snapshot.heap) :
                                              "members" \in DOMAIN snapshot.heap[k]}}}

\* C14: every heap reference [id] in a Value position of the snapshot (a
\* variable's value, a member's key, a member's value) has id as a key of the
\* heap of the same snapshot, and no number, boolean, None, string or class
\* has a heap entry: every key of the heap is the id of a container or of an
\* instance
C14_ReferencesResolve ==
    /\ \A v \in SnapshotValues : v.kind = "ref" => Slots(v.id) # {}
    /\ \A k \in 1..Len(snapshot.heap) :
          \E o \in 1..Len(Objects) :
              /\ id_(o) = snapshot.heap[k].id
              /\ Objects[o].kind \in {"tuple", "list", "set", "dict", "object"}

\* the snapshot of d = {(1,): c} and a number: a key, a value and a variable
\* are references, another variable is inline
C14_Witness ==
    /\ Done
    /\ \E k \in 1..Len(snapshot.heap) :
          /\ snapshot.heap[k].type = "map"
          /\ snapshot.heap[k].members[1].key = HeapRef(id_(16))
          /\ snapshot.heap[k].members[1].value = HeapRef(id_(14))
    /\ Text(str(Objects[3])) \in SnapshotValues
    /\ HeapRef(id_(17)) \in SnapshotValues

\* the object _inspect_object is called with is one whose members are being
\* walked
BackEdge == Calling /\ \E n \in 1..Len(walk) : walk[n].id = Target

\* C15: cycle safety. The heap slot of a composite is there while its members
\* are walked, no composite has its members taken twice in one snapshot, a
\* back-edge to an object being expanded returns the reference [id] of its
\* slot and expands nothing, and inspect returns.
C15_CycleSafety ==
    /\ [](/\ \A n \in 1..Len(walk) : Slots(id_(walk[n].id)) # {}
          /\ \A i, j \in 1..Len(expanded) : i # j => expanded[i] # expanded[j])
    /\ [][BackEdge =>
            /\ expanded' = expanded
            /\ snapshot' = snapshot
            /\ LET n == Len(walk)
                   t == walk[n]
                   r == HeapRef(id_(Target))
               IN  /\ Len(walk') = n
                   /\ IF t.part = "key" THEN walk'[n].key = r
                      ELSE walk'[n].acc = Append(t.acc, [key |-> t.key, value |-> r])]_vars
    /\ <>Done

\* a = [a, 1] and c.peer = c2, c2.peer = c were walked: the entry of a has a
\* as its first member, the entries of c and c2 refer to each other
C15_Witness ==
    /\ Done
    /\ \E k \in Slots(id_(13)) : snapshot.heap[k].members[1].value = HeapRef(id_(13))
    /\ \E k \in Slots(id_(14)) : snapshot.heap[k].members[2].value = HeapRef(id_(15))
    /\ \E k \in Slots(id_(15)) : snapshot.heap[k].members[1].value = HeapRef(id_(14))

\* a name that does not begin with '_'
NoUnderscore(name) == name = <<>> \/ name[1] # "_"

\* the value is a reference to an entry with userDefined = true whose members
\* are the public instance attributes of object o
Exposed(value, o) ==
    /\ value.kind = "ref"
    /\ \E k \in Slots(value.id) :
          /\ snapshot.heap[k].userDefined
          /\ [m \in 1..Len(snapshot.heap[k].members) |-> snapshot.heap[k].members[m].key]
             = [m \in 1..Len(SelectSeq(Objects[o].items,
                                       LAMBDA kv : NoUnderscore(Objects[kv[1]].s))) |->
                  Text(Objects[SelectSeq(Objects[o].items,
                                         LAMBDA kv : NoUnderscore(Objects[kv[1]].s))[m][1]].s)]

\* C16: user-class discovery is independent of walk order. In the snapshot
\* inspect returns, the value of a public variable bound to an object of no
\* built-in kind is a reference to an entry with userDefined = true and the
\* public attributes of the object if and only if the class of the object was
\* declared in the user module, wherever the class itself is bound.
C16_UserClassDiscovery ==
    Done =>
        \A i \in 1..Len(Frames) :
            \A j \in 1..Len(public_locals(Frames[i])) :
                LET o == public_locals(Frames[i])[j][2]
                IN  Objects[o].kind = "object" =>
                        (Exposed(snapshot.stack[i].variables[j].value, o)
                         <=> Objects[Objects[o].type].module = module)

\* C17: visibility filter. In the snapshot inspect returns, the variables of
\* each frame record are the local bindings of the frame whose names do not
\* begin with '_', each once and in order, and no member of the entry of a
\* user-defined object has a name that begins with '_'.
C17_VisibilityFilter ==
    Done =>
        /\ Len(snapshot.stack) = Len(Frames)
        /\ \A i \in 1..Len(Frames) :
              [j \in 1..Len(snapshot.stack[i].variables) |->
                  snapshot.stack[i].variables[j].name]
              = [j \in 1..Len(SelectSeq(Frames[i].f_locals,
                                        LAMBDA nv : NoUnderscore(nv[1]))) |->
                   SelectSeq(Frames[i].f_locals, LAMBDA nv : NoUnderscore(nv[1]))[j][1]]
        /\ \A k \in 1..Len(snapshot.heap) :
              snapshot.heap[k].userDefined =>
                  \A m \in 1..Len(snapshot.heap[k].members) :
                      /\ snapshot.heap[k].members[m].key.kind = "string"
                      /\ NoUnderscore(snapshot.heap[k].members[m].key.s)

\* the method frame has _t, the module frame has __name__ and _p, and c, with
\* the attributes x, _h and peer, has the two members x and peer
C17_Witness ==
    /\ Done
    /\ Len(Frames) = 2
    /\ \E j \in 1..Len(Frames[1].f_locals) : Frames[1].f_locals[j][1] = <<"_", "p">>
    /\ \E k \in Slots(id_(14)) :
          /\ snapshot.heap[k].userDefined
          /\ Len(snapshot.heap[k].members) = 2
          /\ snapshot.heap[k].members[1].key = Text(<<"x">>)

=============================================================================
